---- MODULE Spec2Model ----
(***************************************************************************)
(* Model of FpArchiveDataManager (src/src/MultiZipReader.ts): the registry *)
(* of loaded archive sources, the central-directory scan (non-ZIP64 and    *)
(* chunked ZIP64 paths), the sidecar cache, the local-header resolver and  *)
(* the payload stream with its length/CRC verification.                    *)
(*                                                                         *)
(* Bytes are modelled by the structures they encode.  A central directory  *)
(* is a sequence of records; a buffer over it is an (offset, length)       *)
(* window, and a read at a buffer position is a read of the record field   *)
(* that lies at that byte offset.  32-bit fields are numbers; the bit      *)
(* pattern 0xFFFFFFFF is written SENTINEL and kept apart from every real   *)
(* size and offset by the value -1 (the pattern read as a signed int32).   *)
(***************************************************************************)
EXTENDS Integers, Sequences, FiniteSets, TLC

VARIABLES
  disk,        \* the archive files: path -> file content (read-only)
  cacheFiles,  \* the sidecar files: index path -> content
  sources,     \* FpArchiveDataManager.sources
  last,        \* what the most recent call did: its arguments, outcome, I/O
  loading,     \* the frame of a loadArchive call suspended at an await
  reading      \* the stream of a read call that has not ended yet

vars == <<disk, cacheFiles, sources, last, loading, reading>>

----------------------------------------------------------------------------
(* Program constants                                                       *)

CUR_VERSION == 0
EOCD_SIG == 100879184        \* 0x06054b50
EOCD64_SIG == 101075792      \* 0x06064b50
CD_SIG == 33639248           \* 0x02014b50
SENTINEL == -1               \* 0xFFFFFFFF
bufferSize == 1024
chunkSize == 64 * 1024
CD_HEADER == 46
LFH_HEADER == 30
STORE == 0
DEFLATE == 8

(* Bounds of the model                                                     *)
MaxSources == 2              \* loads accepted while fewer sources are held
MaxRecords == 3              \* records of a generated central directory

Max(a, b) == IF a >= b THEN a ELSE b
Min(a, b) == IF a <= b THEN a ELSE b

(* x & mask, for a one-bit mask: nonzero iff the bit is set.               *)
BitAnd(x, mask) == IF (x \div mask) % 2 = 1 THEN mask ELSE 0
(* x >> n for a non-negative x.                                            *)
ShiftRight(x, n) == x \div (2 ^ n)

----------------------------------------------------------------------------
(* Paths.  A path is <<stem, extension>>.                                  *)

PathA == <<"a", "zip">>
PathB == <<"a", "bak">>
Paths == {PathA, PathB}

(* filePath.substring(0, length - extname.length) + '.mzrindex'            *)
IndexFilePath(filePath) == <<filePath[1], "mzrindex">>

IndexPaths == {IndexFilePath(p) : p \in Paths}

----------------------------------------------------------------------------
(* Archive files as inputs.                                                *)
(*                                                                         *)
(* An entry is described by what a ZIP writer decided for it; BuildArchive *)
(* lays the entries out (local header + payload each, then the central     *)
(* directory, then the end records) and yields the fields found at the    *)
(* byte offsets the reader reads.                                          *)

NameList == <<"x", "y", "z", "w", "v">>
ProtoName == "toString"      \* a member of Object.prototype, arity 0
NameLength(n) == IF n = ProtoName THEN 8 ELSE 1
NameIndex(n) == IF n = ProtoName THEN 9 ELSE CHOOSE i \in 1..Len(NameList) : NameList[i] = n

(* External attributes: an ordinary file; the DOS directory flag; the Unix *)
(* mode 040755 in the high 16 bits; both.                                  *)
AttrFile == {32}
AttrDirectory == {16, 16877 * 65536, 16877 * 65536 + 16}

(* How the writer stored the entry.                                        *)
(*   stored    Store, sizes in the local header                            *)
(*   deflated  Deflate, sizes in the local header                          *)
(*   empty     no content                                                  *)
(*   streamed  Deflate written as a stream: general-purpose bit 3, zero    *)
(*             sizes in the local header, true sizes in the data           *)
(*             descriptor after the payload and in the central directory   *)
(*   zip64lfh  Store, local-header sizes 0xFFFFFFFF with a ZIP64 extra     *)
(*   corrupt   Store, payload bytes damaged on disk after writing          *)
(*   lzma      compression method 14, which the reader has no decoder for  *)
(*   zip64cut  Store, local-header sizes 0xFFFFFFFF and no extra field     *)
Kinds ==
  {"stored", "deflated", "empty", "streamed", "zip64lfh", "corrupt", "lzma", "zip64cut"}

ContentLength(kind) == IF kind = "empty" THEN 0 ELSE 3
ContentCrc(tag, name, kind) == IF kind = "empty" THEN 0 ELSE 16 * tag + NameIndex(name)
MethodOf(kind) ==
  IF kind \in {"deflated", "streamed"} THEN DEFLATE
  ELSE IF kind = "lzma" THEN 14
  ELSE STORE
StoredLength(kind) ==
  IF kind = "empty" THEN 0
  ELSE IF MethodOf(kind) # STORE THEN ContentLength(kind) + 2
  ELSE ContentLength(kind)

(* The local file header and payload of entry e written at offset `at`.    *)
LocalOf(e, at, tag) ==
  LET len == ContentLength(e.kind)
      crc == ContentCrc(tag, e.name, e.kind)
      st  == StoredLength(e.kind)
      z64 == e.kind = "zip64lfh"
      cut == e.kind = "zip64cut"
      str == e.kind = "streamed"
  IN [ at                |-> at,
       compressionMethod |-> MethodOf(e.kind),
       compressedSize    |-> IF str THEN 0 ELSE IF z64 \/ cut THEN SENTINEL ELSE st,
       uncompressedSize  |-> IF str THEN 0 ELSE IF z64 \/ cut THEN SENTINEL ELSE len,
       nameLength        |-> NameLength(e.name),
       extraFieldLength  |-> IF z64 THEN 20 ELSE 0,
       zip64             |-> IF z64 THEN <<len, st>> ELSE <<>>,
       stored            |-> st,
       \* the stored bytes as they are, and as raw-Deflate decodes them
       raw      |-> [length |-> st,
                     crc |-> IF e.kind = "corrupt" THEN 1000 + crc
                             ELSE IF MethodOf(e.kind) # STORE THEN 2000 + crc
                             ELSE crc],
       inflated |-> [length |-> len, crc |-> crc],
       trailer  |-> IF str THEN 16 ELSE 0 ]

LocalSize(l) == LFH_HEADER + l.nameLength + l.extraFieldLength + l.stored + l.trailer

(* The central-directory record of e.  e.sentinels names the nominal       *)
(* fields written as 0xFFFFFFFF: "u" uncompressed size, "c" compressed     *)
(* size, "o" local header offset; the ZIP64 extra field holds their true   *)
(* values in that order, only those.                                       *)
RecordOf(e, at, tag) ==
  LET len == ContentLength(e.kind)
      st  == StoredLength(e.kind)
      s   == e.sentinels
  IN [ signature          |-> e.signature,
       crc32              |-> ContentCrc(tag, e.name, e.kind),
       compressedSize     |-> IF "c" \in s THEN SENTINEL ELSE st,
       uncompressedSize   |-> IF "u" \in s THEN SENTINEL ELSE len,
       nameLength         |-> NameLength(e.name),
       extraFieldLength   |-> IF s = {} THEN 0 ELSE 4 + 8 * Cardinality(s),
       fileCommentLength  |-> e.fileCommentLength,
       externalAttributes |-> e.externalAttributes,
       localHeaderOffset  |-> IF "o" \in s THEN SENTINEL ELSE at,
       fileName           |-> e.name,
       zip64              |-> (IF "u" \in s THEN <<len>> ELSE <<>>)
                              \o (IF "c" \in s THEN <<st>> ELSE <<>>)
                              \o (IF "o" \in s THEN <<at>> ELSE <<>>) ]

RecordSize(r) == CD_HEADER + r.nameLength + r.extraFieldLength + r.fileCommentLength

Prepend(r, l, rest) == [cd |-> <<r>> \o rest.cd, local |-> <<l>> \o rest.local]

RECURSIVE LayOut(_, _, _, _)
(* entries es[i..] written from offset `at`: their records and locals      *)
LayOut(es, i, at, tag) ==
  IF i > Len(es) THEN [cd |-> <<>>, local |-> <<>>]
  ELSE Prepend(RecordOf(es[i], at, tag), LocalOf(es[i], at, tag),
               LayOut(es, i + 1, at + LocalSize(LocalOf(es[i], at, tag)), tag))

(* the end of the last local part                                          *)
EndOf(local) == IF local = <<>> THEN 0 ELSE local[Len(local)].at + LocalSize(local[Len(local)])

RECURSIVE StartOf(_, _)
(* byte offset of record i within the central directory                    *)
StartOf(cd, i) == IF i = 1 THEN 0 ELSE StartOf(cd, i - 1) + RecordSize(cd[i - 1])

CdLength(cd) == StartOf(cd, Len(cd) + 1)

(* format: "zip"      EOCD                                                 *)
(*         "zip64"    EOCD64, locator, EOCD with offset 0xFFFFFFFF         *)
(*         "noEocd64" EOCD with offset 0xFFFFFFFF and no EOCD64 record     *)
(*         "noEocd"   not a ZIP file: no EOCD signature                    *)
Formats == {"zip", "zip64", "noEocd64", "noEocd"}

(* the file made of the local parts, the directory and the end records    *)
ArchiveOf(lay, format, cdAt, cdLen, eocdAt) ==
  [ size  |-> IF format = "noEocd" THEN eocdAt + 10 ELSE eocdAt + 22,
    cd    |-> lay.cd,
    local |-> lay.local,
    cdAt  |-> cdAt,
    \* the signatures that occur in the file outside names and payloads
    signatures |->
      (IF format = "noEocd" THEN {} ELSE {[sig |-> EOCD_SIG, at |-> eocdAt]})
      \cup (IF format = "zip64" THEN {[sig |-> EOCD64_SIG, at |-> cdAt + cdLen]} ELSE {}),
    eocd   |-> [centralDirOffset |-> IF format \in {"zip64", "noEocd64"} THEN SENTINEL ELSE cdAt,
                centralDirSize   |-> IF format \in {"zip64", "noEocd64"} THEN SENTINEL ELSE cdLen],
    eocd64 |-> [centralDir64Size |-> cdLen, centralDir64Offset |-> cdAt] ]

PlaceEnd(lay, format, cdAt, cdLen) ==
  ArchiveOf(lay, format, cdAt, cdLen,
            IF format = "zip64" THEN cdAt + cdLen + 56 + 20 ELSE cdAt + cdLen)

PlaceDirectory(lay, format) == PlaceEnd(lay, format, EndOf(lay.local), CdLength(lay.cd))

BuildArchive(es, format, tag) == PlaceDirectory(LayOut(es, 1, 0, tag), format)

Entry(name, attr, comment, sent, sig, kind) ==
  [ name |-> name, externalAttributes |-> attr, fileCommentLength |-> comment,
    sentinels |-> sent, signature |-> sig, kind |-> kind ]

PlainFile(name, kind) == Entry(name, 32, 0, {}, CD_SIG, kind)


----------------------------------------------------------------------------
(* Reads of the central-directory bytes.                                   *)

(* index of the record that starts at byte `off` of the directory, else 0  *)
RecordAt(cd, off) ==
  IF \E i \in 1..Len(cd) : StartOf(cd, i) = off
  THEN CHOOSE i \in 1..Len(cd) : StartOf(cd, i) = off
  ELSE 0

(* The field of record r at byte `off` of its 46-byte header.              *)
Field(r, off) ==
  CASE off = 0  -> r.signature
    [] off = 16 -> r.crc32
    [] off = 20 -> r.compressedSize
    [] off = 24 -> r.uncompressedSize
    [] off = 28 -> r.nameLength
    [] off = 30 -> r.extraFieldLength
    [] off = 32 -> r.fileCommentLength
    [] off = 38 -> r.externalAttributes
    [] off = 42 -> r.localHeaderOffset

ReadUInt32LE(r, off) == Field(r, off)
ReadUInt16LE(r, off) == Field(r, off) % 65536

(* cdBuffer.readUInt32LE(pos) where buffer byte pos is directory byte abs: *)
(* a record's signature at a record start; inside a record the bytes of a  *)
(* name, extra field or comment, which hold no signature.                  *)
ReadSignatureAt(cd, abs) ==
  IF RecordAt(cd, abs) # 0 THEN ReadUInt32LE(cd[RecordAt(cd, abs)], 0) ELSE 0

(* cdBuffer.readBigUInt64LE(pos + 46 + nameLength + zip64Pos): the 8-byte  *)
(* value of the ZIP64 extra field that lies zip64Pos bytes into the extra  *)
(* field area (4 bytes of header id and size come first).                  *)
ReadZip64(r, zip64Pos) == r.zip64[(zip64Pos - 4) \div 8 + 1]

(* (externAttributes & 0x10) || ((externAttributes >> 16) & 0o040000)      *)
IsDirectoryAttr(externAttributes) ==
  \/ BitAnd(externAttributes, 16) # 0
  \/ BitAnd(ShiftRight(externAttributes, 16), 16384) # 0

(* const externAttributes = cdBuffer.readUInt16LE(pos + 38), then the test *)
IsDirectoryRecord(r) == IsDirectoryAttr(ReadUInt16LE(r, 38))

(* 46 + nameLength + extraFieldLength + fileCommentLength, as read         *)
RecordSizeRead(r) ==
  CD_HEADER + ReadUInt16LE(r, 28) + ReadUInt16LE(r, 30) + ReadUInt16LE(r, 32)

EmptyData == [n \in {} |-> 0]

(* archiveData[fileName] = file                                            *)
Put(data, fileName, file) == (fileName :> file) @@ data

(* Lines 179-202: the entry of a file record on the ZIP64 path.  The       *)
(* variable named uncompressedLength is read at byte 20, length at byte    *)
(* 24, and the ZIP64 values are taken in the order of the three tests.     *)
File64(r) ==
  LET uncompressedLength0 == ReadUInt32LE(r, 20)
      length0 == ReadUInt32LE(r, 24)
      fileHeaderOffset0 == ReadUInt32LE(r, 42)
      zip64Pos1 == IF uncompressedLength0 = SENTINEL THEN 4 + 8 ELSE 4
      zip64Pos2 == IF length0 = SENTINEL THEN zip64Pos1 + 8 ELSE zip64Pos1
  IN [ crc32 |-> ReadUInt32LE(r, 16),
       length |-> IF length0 = SENTINEL THEN ReadZip64(r, zip64Pos1) ELSE length0,
       fileHeaderOffset |-> IF fileHeaderOffset0 = SENTINEL THEN ReadZip64(r, zip64Pos2)
                            ELSE fileHeaderOffset0 ]

(* Lines 236-244: the entry of a file record on the non-ZIP64 path.        *)
File32(r) ==
  [ crc32 |-> ReadUInt32LE(r, 16),
    length |-> ReadUInt32LE(r, 24),
    fileHeaderOffset |-> ReadUInt32LE(r, 42) ]

(* Lines 153-205: the record loop of the ZIP64 path over one cdBuffer,     *)
(* which holds the directory bytes [base, base + length).  The result is   *)
(* the loop's exit: a throw, or pos, recordSize and archiveData.           *)
RECURSIVE ParseChunk(_, _, _, _, _, _)
ParseRecord64(cd, base, length, pos, data, r) ==
  IF IsDirectoryRecord(r)
  THEN ParseChunk(cd, base, length, pos + RecordSizeRead(r), RecordSizeRead(r), data)
  ELSE IF pos + RecordSizeRead(r) > length
  THEN [error |-> FALSE, pos |-> pos, recordSize |-> RecordSizeRead(r), data |-> data]
  ELSE ParseChunk(cd, base, length, pos + RecordSizeRead(r), RecordSizeRead(r),
                  Put(data, r.fileName, File64(r)))

ParseChunk(cd, base, length, pos, recordSize, data) ==
  IF ~(pos + CD_HEADER <= length)
  THEN [error |-> FALSE, pos |-> pos, recordSize |-> recordSize, data |-> data]
  ELSE IF ReadSignatureAt(cd, base + pos) # CD_SIG
  THEN [error |-> TRUE, pos |-> pos, recordSize |-> recordSize, data |-> data]
  ELSE ParseRecord64(cd, base, length, pos, data, cd[RecordAt(cd, base + pos)])

(* Lines 207-212: the length of remainingBuffer after a cdBuffer of        *)
(* `length` bytes was parsed to pos: cdBuffer.subarray(pos), or empty.     *)
RemainingLength(length, pos, recordSize) ==
  IF pos + CD_HEADER > length \/ pos + recordSize > length
  THEN Max(0, length - pos)
  ELSE 0

(* Lines 139-213: the chunk loop.  processedBytes of centralDir64Size      *)
(* bytes are read; remainingBuffer holds the remLength bytes before them.  *)
RECURSIVE ChunkLoop(_, _, _, _, _)
AfterChunk(cd, centralDir64Size, processedBytes, length, p) ==
  IF p.error THEN [error |-> TRUE, data |-> p.data]
  ELSE ChunkLoop(cd, centralDir64Size, processedBytes,
                 RemainingLength(length, p.pos, p.recordSize), p.data)

ReadChunk(cd, centralDir64Size, processedBytes, remLength, readSize, data) ==
  AfterChunk(cd, centralDir64Size, processedBytes + readSize, remLength + readSize,
             ParseChunk(cd, processedBytes - remLength, remLength + readSize, 0, 0, data))

ChunkLoop(cd, centralDir64Size, processedBytes, remLength, data) ==
  IF ~(processedBytes < centralDir64Size)
  THEN [error |-> FALSE, data |-> data]
  ELSE ReadChunk(cd, centralDir64Size, processedBytes, remLength,
                 IF centralDir64Size - processedBytes > chunkSize THEN chunkSize
                 ELSE centralDir64Size - processedBytes,
                 data)

(* The ZIP64 path: the directory read in 64 KiB chunks.                    *)
ScanZip64(cd, centralDir64Size) == ChunkLoop(cd, centralDir64Size, 0, 0, EmptyData)

(* Lines 216-247: the non-ZIP64 path, the whole directory in one cdBuffer. *)
RECURSIVE ParseWhole(_, _, _, _)
ParseRecord32(cd, length, pos, data, r) ==
  IF IsDirectoryRecord(r)
  THEN ParseWhole(cd, length, pos + RecordSizeRead(r), data)
  ELSE ParseWhole(cd, length, pos + RecordSizeRead(r), Put(data, r.fileName, File32(r)))

ParseWhole(cd, length, pos, data) ==
  IF ~(pos + CD_HEADER <= length)
  THEN [error |-> FALSE, data |-> data]
  ELSE IF ReadSignatureAt(cd, pos) # CD_SIG
  THEN [error |-> TRUE, data |-> data]
  ELSE ParseRecord32(cd, length, pos, data, cd[RecordAt(cd, pos)])

ScanZip(cd, centralDirSize) == ParseWhole(cd, centralDirSize, 0, EmptyData)

----------------------------------------------------------------------------
(* loadArchive                                                             *)

(* buffer positions i that hold `sig`: the buffer holds the last readSize  *)
(* bytes of the file at its start                                          *)
SignatureHits(file, sig, fileSize, readSize) ==
  {i \in {t.at - (fileSize - readSize) : t \in {u \in file.signatures : u.sig = sig}} :
     i >= 0 /\ i + 4 <= readSize /\ i <= bufferSize - 4}

Greatest(S) == CHOOSE i \in S : \A j \in S : j <= i

(* Lines 95-101 and 116-122: the backward search of the 1024-byte tail     *)
(* buffer; the file position of the last match, or -1.                     *)
FindSignature(file, sig, fileSize, readSize) ==
  IF SignatureHits(file, sig, fileSize, readSize) = {} THEN -1
  ELSE fileSize - readSize + Greatest(SignatureHits(file, sig, fileSize, readSize))

(* fd.read of the central directory at `offset`.                           *)
DirectoryAt(file, offset) == CASE offset = file.cdAt -> file.cd

ScanOutcome(r) ==
  [error |-> IF r.error THEN "Bad file header signature" ELSE "", data |-> r.data]

(* Lines 115-213: the ZIP64 branch.                                        *)
ScanArchive64(file, fileSize, readSize) ==
  IF FindSignature(file, EOCD64_SIG, fileSize, readSize) = -1
  THEN [error |-> "Invalid ZIP64 file", data |-> EmptyData]
  ELSE ScanOutcome(ScanZip64(DirectoryAt(file, file.eocd64.centralDir64Offset),
                             file.eocd64.centralDir64Size))

(* Lines 86-249: the scan of an open archive file into archiveData.        *)
ScanTail(file, fileSize, readSize) ==
  IF FindSignature(file, EOCD_SIG, fileSize, readSize) = -1
  THEN [error |-> "Invalid ZIP file", data |-> EmptyData]
  ELSE IF file.eocd.centralDirOffset = SENTINEL
  THEN ScanArchive64(file, fileSize, readSize)
  ELSE ScanOutcome(ScanZip(DirectoryAt(file, file.eocd.centralDirOffset),
                           file.eocd.centralDirSize))

ScanArchive(file) == ScanTail(file, file.size, Min(bufferSize, file.size))

(* v8.serialize / v8.deserialize of a source, and a sidecar that is absent *)
NoCacheFile == [kind |-> "absent"]
Serialize(source) == [kind |-> "v8", value |-> source]
CanDeserialize(content) == content.kind = "v8"
Deserialize(content) == content.value

(* for (const source of this.sources) if (source.path === filePath) throw  *)
AlreadyLoaded(srcs, filePath) == \E i \in 1..Len(srcs) : srcs[i].path = filePath

(* Lines 64-77: the sidecar is used when it can be read and deserialized   *)
(* and its size and version are the file's and the current one.            *)
CacheUsable(content, fileSize) ==
  /\ CanDeserialize(content)
  /\ Deserialize(content).size = fileSize
  /\ Deserialize(content).mzrVersion = CUR_VERSION

CacheHit(caches, filePath, fileSize) == CacheUsable(caches[IndexFilePath(filePath)], fileSize)

(* Lines 79-84 and 250-258: the scanned archive is published, then the     *)
(* sidecar is written when asked for.  handles: the file handles the call  *)
(* opened (line 60) and has not closed when it returns or throws; the only *)
(* closes are those of lines 71 and 250, and a throw of the scan passes    *)
(* neither.                                                                *)
Publish(srcs, caches, indexFilePath, cache, writeOk, scan, archive) ==
  IF scan.error # ""
  THEN [error |-> scan.error, sources |-> srcs, caches |-> caches, scanned |-> TRUE,
        handles |-> 1]
  ELSE IF ~cache
  THEN [error |-> "", sources |-> Append(srcs, archive), caches |-> caches,
        scanned |-> TRUE, handles |-> 0]
  ELSE IF writeOk
  THEN [error |-> "", sources |-> Append(srcs, archive),
        caches |-> [caches EXCEPT ![indexFilePath] = Serialize(archive)],
        scanned |-> TRUE, handles |-> 0]
  ELSE [error |-> "writeFile failed", sources |-> Append(srcs, archive),
        caches |-> caches, scanned |-> TRUE, handles |-> 0]

ScanAndPublish(srcs, caches, filePath, fileSize, cache, writeOk, scan) ==
  Publish(srcs, caches, IndexFilePath(filePath), cache, writeOk, scan,
          [mzrVersion |-> CUR_VERSION, path |-> filePath, size |-> fileSize,
           data |-> scan.data])

(* The whole of loadArchive(filePath, cache).  writeOk: whether the        *)
(* sidecar can be written (fs.promises.writeFile succeeds).                *)
LoadResult(srcs, caches, dsk, filePath, cache, writeOk) ==
  IF AlreadyLoaded(srcs, filePath)
  THEN [error |-> "Archive already loaded", sources |-> srcs, caches |-> caches,
        scanned |-> FALSE, handles |-> 0]
  ELSE IF cache /\ CacheHit(caches, filePath, dsk[filePath].size)
  THEN [error |-> "",
        sources |-> Append(srcs, Deserialize(caches[IndexFilePath(filePath)])),
        caches |-> caches, scanned |-> FALSE, handles |-> 0]
  ELSE ScanAndPublish(srcs, caches, filePath, dsk[filePath].size, cache, writeOk,
                      ScanArchive(dsk[filePath]))

----------------------------------------------------------------------------
(* getZipDataOffset                                                        *)

Undefined == "undefined"

(* s.data[filePath] !== undefined on a plain object: an own property, or a *)
(* property inherited from Object.prototype.                               *)
HasProperty(data, name) == name \in DOMAIN data \/ name = ProtoName

(* s.data[filePath]: the own property, else the inherited one, a function  *)
(* whose length is its arity and which has no crc32 or fileHeaderOffset.   *)
Property(data, name) ==
  IF name \in DOMAIN data THEN data[name]
  ELSE [crc32 |-> Undefined, length |-> 0, fileHeaderOffset |-> Undefined]

(* Lines 337-343: the first source, in load order from i, whose data has   *)
(* the property; 0 when none has.                                          *)
RECURSIVE FindSource(_, _, _)
FindSource(srcs, name, i) ==
  IF i > Len(srcs) THEN 0
  ELSE IF HasProperty(srcs[i].data, name) THEN i
  ELSE FindSource(srcs, name, i + 1)

(* fd.read of 30 bytes at `offset`: the local header written there; past   *)
(* the end of the file nothing is read and the buffer stays zero.          *)
ZeroHeader(offset) ==
  [ at |-> offset, compressionMethod |-> 0, compressedSize |-> 0, uncompressedSize |-> 0,
    nameLength |-> 0, extraFieldLength |-> 0, zip64 |-> <<>>, stored |-> 0,
    raw |-> [length |-> 0, crc |-> 0], inflated |-> [length |-> 0, crc |-> 0],
    trailer |-> 0 ]

HeaderAt(file, offset) ==
  CASE \E i \in 1..Len(file.local) : file.local[i].at = offset ->
         file.local[CHOOSE i \in 1..Len(file.local) : file.local[i].at = offset]
    [] /\ \A i \in 1..Len(file.local) : file.local[i].at # offset
       /\ (offset = SENTINEL \/ offset >= file.size) -> ZeroHeader(offset)

(* The field of local header l at byte `off`.                              *)
LocalField(l, off) ==
  CASE off = 8  -> l.compressionMethod
    [] off = 18 -> l.compressedSize
    [] off = 22 -> l.uncompressedSize
    [] off = 26 -> l.nameLength
    [] off = 28 -> l.extraFieldLength

NoWindow ==
  [ filePath |-> <<>>, crc32 |-> 0, offset |-> 0, compressionMethod |-> 0,
    compressedLength |-> 0, length |-> 0 ]

(* Lines 364-399, the local header lfh read at fileInfo.fileHeaderOffset.  *)
(* "RangeError": a ZIP64 value is read past the extra field's end.         *)
(* handles: the handles opened at line 360 and not closed at the return or *)
(* throw; the only close is that of line 388.                              *)
WindowOf(source, fileInfo, i, lfh) ==
  LET compressedLength0 == LocalField(lfh, 18)
      length0 == LocalField(lfh, 22)
      nameLength == LocalField(lfh, 26) % 65536
      extraFieldLength == LocalField(lfh, 28) % 65536
      zip64Pos1 == IF length0 = SENTINEL THEN 4 + 8 ELSE 4
      zip64Pos2 == IF compressedLength0 = SENTINEL THEN zip64Pos1 + 8 ELSE zip64Pos1
  IN IF zip64Pos2 > 4 /\ zip64Pos2 > extraFieldLength
     THEN [status |-> "RangeError", window |-> NoWindow, src |-> i, opens |-> 1,
           handles |-> 1]
     ELSE [status |-> "ok", src |-> i, opens |-> 1, handles |-> 0,
           window |->
             [ filePath |-> source.path,
               crc32 |-> fileInfo.crc32,
               compressionMethod |-> LocalField(lfh, 8) % 65536,
               compressedLength |-> IF compressedLength0 = SENTINEL
                                    THEN lfh.zip64[(zip64Pos1 - 4) \div 8 + 1]
                                    ELSE compressedLength0,
               length |-> IF length0 = SENTINEL THEN lfh.zip64[1] ELSE length0,
               offset |-> fileInfo.fileHeaderOffset + LFH_HEADER + nameLength
                            + extraFieldLength ]]

(* getZipDataOffset with the open of line 360 made before the length test  *)
(* of line 348: an entry of length 0 costs one open of the archive.        *)
WindowOfEntryOpensFirst(dsk, source, fileInfo, i) ==
  IF fileInfo.length = 0
  THEN [status |-> "ok", src |-> i, opens |-> 1, handles |-> 0,
        window |-> [filePath |-> source.path, crc32 |-> fileInfo.crc32, offset |-> 0,
                    compressionMethod |-> 0, compressedLength |-> 0, length |-> 0]]
  ELSE WindowOf(source, fileInfo, i, HeaderAt(dsk[source.path], fileInfo.fileHeaderOffset))

(* Lines 347-400: the window of the entry fileInfo of source.              *)
WindowOfEntry(dsk, source, fileInfo, i) ==
  IF fileInfo.length = 0
  THEN [status |-> "ok", src |-> i, opens |-> 0, handles |-> 0,
        window |-> [filePath |-> source.path, crc32 |-> fileInfo.crc32, offset |-> 0,
                    compressionMethod |-> 0, compressedLength |-> 0, length |-> 0]]
  ELSE WindowOf(source, fileInfo, i, HeaderAt(dsk[source.path], fileInfo.fileHeaderOffset))

WindowFrom(srcs, dsk, filePath, i) ==
  IF i = 0 THEN [status |-> "null", window |-> NoWindow, src |-> 0, opens |-> 0, handles |-> 0]
  ELSE WindowOfEntry(dsk, srcs[i], Property(srcs[i].data, filePath), i)

(* [status, window, src, opens]: status "null" (no source has the name),   *)
(* "ok", or "RangeError"; src the index of the source used; opens the      *)
(* number of opens of an archive file made.                                *)
GetZipDataOffset(srcs, dsk, filePath) ==
  WindowFrom(srcs, dsk, filePath, FindSource(srcs, filePath, 1))

----------------------------------------------------------------------------
(* _createStreamFromOffset and the payload it yields                       *)

DataOffset(l) == l.at + LFH_HEADER + l.nameLength + l.extraFieldLength

(* Lines 271-274: the bytes fs.createReadStream is asked for, `end` being  *)
(* inclusive.                                                              *)
StreamRangeEndExclusive(zipDataOffset) ==
  [start |-> zipDataOffset.offset,
   end   |-> zipDataOffset.offset + zipDataOffset.compressedLength]

StreamRange(zipDataOffset) ==
  [start |-> zipDataOffset.offset,
   end   |-> zipDataOffset.offset + zipDataOffset.compressedLength - 1]

NoRange == [start |-> 0, end |-> -1]

(* The payloads of the file that occupy exactly the bytes start..end.      *)
PayloadsAt(file, range) ==
  {i \in 1..Len(file.local) :
     /\ DataOffset(file.local[i]) = range.start
     /\ DataOffset(file.local[i]) + file.local[i].stored - 1 = range.end}

(* Bytes of the file that are not one whole payload: they are no entry's   *)
(* content, as they are or inflated.                                       *)
Stray(range) ==
  [raw |-> [length |-> range.end - range.start + 1, crc |-> -2],
   inflated |-> [length |-> 0, crc |-> -3]]

(* The bytes start..end of the file.                                       *)
PayloadAt(file, range) ==
  IF PayloadsAt(file, range) = {} THEN Stray(range)
  ELSE file.local[CHOOSE i \in PayloadsAt(file, range) : TRUE]

NoBuffer == [length |-> 0, crc |-> 0]

(* method 8: the bytes piped through createInflateRaw; else the raw bytes  *)
Decode(compressionMethod, payload) ==
  IF compressionMethod = DEFLATE THEN payload.inflated ELSE payload.raw

StreamOver(dsk, zipDataOffset, range) ==
  IF range.start > range.end
  THEN [status |-> "RangeError", drained |-> NoBuffer, range |-> NoRange]
  ELSE [status |-> "stream", range |-> range,
        drained |-> Decode(zipDataOffset.compressionMethod,
                           PayloadAt(dsk[zipDataOffset.filePath], range))]

(* [status, drained, range]: "null", no stream; "RangeError",              *)
(* createReadStream rejects start > end; "stream", with the bytes the      *)
(* stream yields when drained (their length and CRC-32) and the range of   *)
(* the file it reads.                                                      *)
CreateStreamFromOffset(dsk, zipDataOffset) ==
  IF zipDataOffset.length = 0
  THEN [status |-> "null", drained |-> NoBuffer, range |-> NoRange]
  ELSE StreamOver(dsk, zipDataOffset, StreamRange(zipDataOffset))

(* Lines 309-319: the 'end' handler of readFile on the drained buffer.  A  *)
(* throw inside the handler is an uncaught exception of the emitter: the   *)
(* promise is neither resolved nor rejected.                               *)
OnEnd(zipDataOffset, buffer) ==
  IF buffer.length # zipDataOffset.length THEN "unsettled"
  ELSE IF buffer.crc # zipDataOffset.crc32 THEN "unsettled"
  ELSE "buffer"

(* streams: 1 when a read stream was opened on the archive and drained     *)
Outcome(o, buffer, z, streams, range) ==
  [outcome |-> o, buffer |-> buffer, window |-> z.window, src |-> z.src,
   opens |-> z.opens + streams, drained |-> streams = 1, handles |-> z.handles,
   range |-> range]

(* Lines 293-322: readFile once the window z is known.                     *)
(*   "rejected"  rejected with an error                                    *)
(*   "null"      resolved with null                                        *)
(*   "buffer"    resolved with the drained bytes                           *)
(*   "unsettled" never resolved nor rejected                               *)
ReadStream(z, stream) ==
  IF stream.status = "null" THEN Outcome("null", NoBuffer, z, 0, NoRange)
  ELSE IF stream.status = "RangeError" THEN Outcome("rejected", NoBuffer, z, 0, NoRange)
  ELSE Outcome(OnEnd(z.window, stream.drained), stream.drained, z, 1, stream.range)

(* Lines 288-291: "ENOENT", rejected with createENOENTError(filePath).     *)
ReadWindow(dsk, z) ==
  IF z.status = "null" THEN Outcome("ENOENT", NoBuffer, z, 0, NoRange)
  ELSE IF z.status # "ok" THEN Outcome("rejected", NoBuffer, z, 0, NoRange)
  ELSE ReadStream(z, CreateStreamFromOffset(dsk, z.window))

ReadFileResult(srcs, dsk, filePath) == ReadWindow(dsk, GetZipDataOffset(srcs, dsk, filePath))

(* Lines 331: readFileStream returns the stream, "stream", unverified;     *)
(* buffer is what the caller gets by draining it.                          *)
ReturnStream(z, stream) ==
  IF stream.status = "null" THEN Outcome("null", NoBuffer, z, 0, NoRange)
  ELSE IF stream.status = "RangeError" THEN Outcome("rejected", NoBuffer, z, 0, NoRange)
  ELSE Outcome("stream", stream.drained, z, 1, stream.range)

StreamWindow(dsk, z) ==
  IF z.status = "null" THEN Outcome("ENOENT", NoBuffer, z, 0, NoRange)
  ELSE IF z.status # "ok" THEN Outcome("rejected", NoBuffer, z, 0, NoRange)
  ELSE ReturnStream(z, CreateStreamFromOffset(dsk, z.window))

ReadFileStreamResult(srcs, dsk, filePath) ==
  StreamWindow(dsk, GetZipDataOffset(srcs, dsk, filePath))

----------------------------------------------------------------------------
(* The state machine                                                       *)

ReadNames == {"x", "y", ProtoName}

Reads == {"readFile", "readFileStream"}

Idle ==
  [ op |-> "none", path |-> <<>>, name |-> "", cache |-> FALSE, outcome |-> "",
    scanned |-> FALSE, buffer |-> NoBuffer, window |-> NoWindow, src |-> 0, opens |-> 0,
    drained |-> FALSE, handles |-> 0, range |-> NoRange ]

(* No loadArchive call is in progress; no stream is open.                  *)
NoLoad ==
  [ pc |-> "idle", path |-> <<>>, cache |-> FALSE, writeOk |-> TRUE,
    processedBytes |-> 0, remLength |-> 0, data |-> EmptyData ]

NoRead ==
  [ state |-> "none", op |-> "none", compressionMethod |-> 0, fault |-> "none",
    final |-> "" ]

(* The archives of the registry scenarios: one or two entries of one kind, *)
(* possibly with a damaged second record, in each format.                  *)
Tag(p) == IF p = PathA THEN 1 ELSE 2

EntrySeqs(kind) ==
  { <<PlainFile("x", kind)>>,
    <<PlainFile(ProtoName, kind)>>,
    <<PlainFile("x", kind), PlainFile(ProtoName, kind)>>,
    <<PlainFile("x", kind), Entry(ProtoName, 32, 0, {}, 0, kind)>> }

Archives(p, kind) ==
  {BuildArchive(es, f, Tag(p)) : es \in EntrySeqs(kind), f \in {"zip", "zip64"}}
  \cup {BuildArchive(<<PlainFile("x", kind)>>, f, Tag(p)) : f \in {"noEocd", "noEocd64"}}

Init ==
  /\ \E kind \in Kinds :
       \E a \in Archives(PathA, kind), b \in Archives(PathB, kind) :
         disk = [p \in Paths |-> IF p = PathA THEN a ELSE b]
  /\ cacheFiles = [ip \in IndexPaths |-> NoCacheFile]
  /\ sources = <<>>
  /\ last = Idle
  /\ loading = NoLoad
  /\ reading = NoRead

Loaded(r, filePath, cache) ==
  /\ sources' = r.sources
  /\ cacheFiles' = r.caches
  /\ last' = [Idle EXCEPT !.op = "loadArchive", !.path = filePath, !.cache = cache,
                          !.outcome = IF r.error = "" THEN "ok" ELSE r.error,
                          !.scanned = r.scanned, !.handles = r.handles]
  /\ UNCHANGED <<disk, loading, reading>>

(* await loadArchive(filePath, cache)                                      *)
LoadArchive(filePath, cache, writeOk) ==
  /\ Len(sources) < MaxSources
  /\ Loaded(LoadResult(sources, cacheFiles, disk, filePath, cache, writeOk), filePath, cache)

(* Line 42: the files of the directory that loadDirectory keeps, those     *)
(* whose name ends with '.zip'.                                            *)
ZipFiles == IF PathA[2] = "zip" THEN <<PathA>> ELSE <<>>

(* Lines 42-44: for (file of ...) await this.loadArchive(path, false); the *)
(* loop ends at the first load that throws.                                *)
RECURSIVE LoadEach(_, _, _, _, _)
LoadEachNext(files, i, caches, dsk, r) ==
  IF r.error # "" THEN [error |-> r.error, sources |-> r.sources, handles |-> r.handles]
  ELSE LoadEach(files, i + 1, r.sources, caches, dsk)

LoadEach(files, i, srcs, caches, dsk) ==
  IF i > Len(files) THEN [error |-> "", sources |-> srcs, handles |-> 0]
  ELSE LoadEachNext(files, i, caches, dsk,
                    LoadResult(srcs, caches, dsk, files[i], FALSE, TRUE))

DirectoryLoaded(r) ==
  /\ sources' = r.sources
  /\ last' = [Idle EXCEPT !.op = "loadDirectory",
                          !.outcome = IF r.error = "" THEN "ok" ELSE r.error,
                          !.handles = r.handles]
  /\ UNCHANGED <<disk, cacheFiles, loading, reading>>

(* await loadDirectory(dirPath)                                            *)
LoadDirectory ==
  /\ Len(sources) < MaxSources
  /\ DirectoryLoaded(LoadEach(ZipFiles, 1, sources, cacheFiles, disk))

Returned(op, filePath, r) ==
  /\ last' = [Idle EXCEPT !.op = op, !.name = filePath, !.outcome = r.outcome,
                          !.buffer = r.buffer, !.window = r.window, !.src = r.src,
                          !.opens = r.opens, !.drained = r.drained,
                          !.handles = r.handles, !.range = r.range]
  /\ UNCHANGED <<disk, cacheFiles, sources, loading, reading>>

(* await readFile(filePath)                                                *)
ReadFile(filePath) == Returned("readFile", filePath, ReadFileResult(sources, disk, filePath))

(* await readFileStream(filePath), the returned stream drained             *)
ReadFileStream(filePath) ==
  Returned("readFileStream", filePath, ReadFileStreamResult(sources, disk, filePath))

Next ==
  \/ \E filePath \in Paths, cache \in BOOLEAN, writeOk \in BOOLEAN :
       LoadArchive(filePath, cache, writeOk)
  \/ LoadDirectory
  \/ \E filePath \in ReadNames : ReadFile(filePath)
  \/ \E filePath \in ReadNames : ReadFileStream(filePath)

Spec == Init /\ [][Next]_vars

----------------------------------------------------------------------------
(* The scan scenarios: one central directory, held by two archives that    *)
(* differ only in their end records, so that PathA is indexed by the       *)
(* non-ZIP64 path and PathB by the chunked ZIP64 path.  The directory is   *)
(* a first record whose comment length places the next record's start      *)
(* against the 64 KiB chunk boundary (far from it; its 46-byte header      *)
(* ending exactly at it; its header cut by it; starting exactly at it), a  *)
(* second record of any attributes and sentinel fields, and plain files.   *)

Placements == {0, chunkSize - 93, chunkSize - 67, chunkSize - 47}

PlainFiles(k) == [i \in 1..k |-> PlainFile(NameList[2 + i], "stored")]

ScanEntries ==
  { <<Entry("x", 32, c, {}, CD_SIG, "stored"),
      Entry("y", attr, 0, sent, CD_SIG, IF attr \in AttrDirectory THEN "empty" ELSE "deflated")>>
    \o PlainFiles(k) :
      c \in Placements, attr \in AttrFile \cup AttrDirectory,
      sent \in SUBSET {"u", "c", "o"}, k \in 0..(MaxRecords - 2) }

InitScan ==
  /\ \E es \in ScanEntries :
       disk = [p \in Paths |-> BuildArchive(es, IF p = PathA THEN "zip" ELSE "zip64", 1)]
  /\ cacheFiles = [ip \in IndexPaths |-> NoCacheFile]
  /\ sources = <<>>
  /\ last = Idle
  /\ loading = NoLoad
  /\ reading = NoRead

SpecScan == InitScan /\ [][Next]_vars

----------------------------------------------------------------------------
(* The calls step by step.  loadArchive is an async function: between two  *)
(* awaits it runs without interruption, and at an await other calls of the *)
(* same manager run.  A read call returns or settles when its stream has   *)
(* ended or failed.  One loadArchive call and one stream are in progress   *)
(* at a time.                                                              *)

(* The object `archive` of lines 79-84 as it is now: its data is the       *)
(* archiveData the scan is filling.                                        *)
ArchiveNow(l, dsk) ==
  [mzrVersion |-> CUR_VERSION, path |-> l.path, size |-> dsk[l.path].size, data |-> l.data]

(* this.sources after the part of loadArchive named by stage ("open", the  *)
(* call up to line 60; "scan", a read of directory bytes and their parse;  *)
(* "push", lines 70 and 252), archive being the object of the call.        *)
SourcesAtEarlyPush(stage, srcs, archive) ==
  IF stage = "open" THEN Append(srcs, archive)
  ELSE IF stage = "scan" THEN [srcs EXCEPT ![Len(srcs)] = archive]
  ELSE srcs

SourcesAt(stage, srcs, archive) ==
  IF stage = "push" THEN Append(srcs, archive) ELSE srcs

(* The call of `loading` returns or throws.                                *)
LoadEnds(l, outcome, scanned, handles) ==
  /\ loading' = NoLoad
  /\ last' = [Idle EXCEPT !.op = "loadArchive", !.path = l.path, !.cache = l.cache,
                          !.outcome = outcome, !.scanned = scanned, !.handles = handles]

LoadGoesOn(l) ==
  /\ loading' = l
  /\ last' = [Idle EXCEPT !.op = "loadArchive", !.path = l.path, !.cache = l.cache,
                          !.outcome = "pending"]

(* Lines 47-60: the call, up to the await of the open.                     *)
CallLoadArchive(filePath, cache, writeOk) ==
  /\ loading.pc = "idle"
  /\ Len(sources) < MaxSources
  /\ IF AlreadyLoaded(sources, filePath)
     THEN /\ LoadEnds([NoLoad EXCEPT !.path = filePath, !.cache = cache],
                      "Archive already loaded", FALSE, 0)
          /\ UNCHANGED sources
     ELSE /\ LoadGoesOn([NoLoad EXCEPT !.pc = "opened", !.path = filePath,
                                       !.cache = cache, !.writeOk = writeOk])
          /\ sources' = SourcesAt("open", sources, ArchiveNow(loading', disk))
  /\ UNCHANGED <<disk, cacheFiles, reading>>

(* Lines 60-77: the file is open; the sidecar is read when asked for.      *)
TryCache ==
  /\ loading.pc = "opened"
  /\ IF loading.cache /\ CacheHit(cacheFiles, loading.path, disk[loading.path].size)
     THEN /\ sources' = SourcesAt("push", sources,
                                  Deserialize(cacheFiles[IndexFilePath(loading.path)]))
          /\ LoadEnds(loading, "ok", FALSE, 0)
     ELSE /\ LoadGoesOn([loading EXCEPT !.pc = "tail"])
          /\ UNCHANGED sources
  /\ UNCHANGED <<disk, cacheFiles, reading>>

(* Lines 86-133: what the tail of the file says: an error, or the path to  *)
(* scan the directory by.                                                  *)
TailVerdict(file, fileSize, readSize) ==
  IF FindSignature(file, EOCD_SIG, fileSize, readSize) = -1 THEN "Invalid ZIP file"
  ELSE IF file.eocd.centralDirOffset # SENTINEL THEN "whole"
  ELSE IF FindSignature(file, EOCD64_SIG, fileSize, readSize) = -1 THEN "Invalid ZIP64 file"
  ELSE IF file.eocd64.centralDir64Size > 0 THEN "chunks"
  ELSE "close"

AfterTail(verdict) ==
  IF verdict \in {"Invalid ZIP file", "Invalid ZIP64 file"}
  THEN LoadEnds(loading, verdict, TRUE, 1)
  ELSE LoadGoesOn([loading EXCEPT !.pc = verdict])

ReadTail ==
  /\ loading.pc = "tail"
  /\ AfterTail(TailVerdict(disk[loading.path], disk[loading.path].size,
                           Min(bufferSize, disk[loading.path].size)))
  /\ UNCHANGED <<disk, cacheFiles, sources, reading>>

(* Lines 139-213: one turn of the chunk loop, from the read of the chunk   *)
(* to the next read or to the close.                                       *)
AfterParse(l, centralDir64Size, processedBytes, length, p) ==
  IF p.error
  THEN /\ LoadEnds([l EXCEPT !.data = p.data], "Bad file header signature", TRUE, 1)
       /\ sources' = SourcesAt("scan", sources, ArchiveNow([l EXCEPT !.data = p.data], disk))
  ELSE /\ LoadGoesOn([l EXCEPT !.processedBytes = processedBytes,
                               !.remLength = RemainingLength(length, p.pos, p.recordSize),
                               !.data = p.data,
                               !.pc = IF processedBytes < centralDir64Size THEN "chunks"
                                      ELSE "close"])
       /\ sources' = SourcesAt("scan", sources, ArchiveNow(loading', disk))

TurnOfChunkLoop(l, cd, centralDir64Size, readSize) ==
  AfterParse(l, centralDir64Size, l.processedBytes + readSize, l.remLength + readSize,
             ParseChunk(cd, l.processedBytes - l.remLength, l.remLength + readSize, 0, 0,
                        l.data))

ReadNextChunk ==
  /\ loading.pc = "chunks"
  /\ TurnOfChunkLoop(loading,
                     DirectoryAt(disk[loading.path],
                                 disk[loading.path].eocd64.centralDir64Offset),
                     disk[loading.path].eocd64.centralDir64Size,
                     Min(chunkSize, disk[loading.path].eocd64.centralDir64Size
                                      - loading.processedBytes))
  /\ UNCHANGED <<disk, cacheFiles, reading>>

(* Lines 215-249: the read of the whole directory and its parse.           *)
AfterWhole(l, r) ==
  IF r.error
  THEN /\ LoadEnds([l EXCEPT !.data = r.data], "Bad file header signature", TRUE, 1)
       /\ sources' = SourcesAt("scan", sources, ArchiveNow([l EXCEPT !.data = r.data], disk))
  ELSE /\ LoadGoesOn([l EXCEPT !.data = r.data, !.pc = "close"])
       /\ sources' = SourcesAt("scan", sources, ArchiveNow(loading', disk))

ReadWholeDirectory ==
  /\ loading.pc = "whole"
  /\ AfterWhole(loading, ScanZip(DirectoryAt(disk[loading.path],
                                             disk[loading.path].eocd.centralDirOffset),
                                 disk[loading.path].eocd.centralDirSize))
  /\ UNCHANGED <<disk, cacheFiles, reading>>

(* Lines 250-258: the close, then the push, up to the await of writeCache  *)
(* or to the return.                                                       *)
CloseAndPush ==
  /\ loading.pc = "close"
  /\ sources' = SourcesAt("push", sources, ArchiveNow(loading, disk))
  /\ IF loading.cache THEN LoadGoesOn([loading EXCEPT !.pc = "write"])
     ELSE LoadEnds(loading, "ok", TRUE, 0)
  /\ UNCHANGED <<disk, cacheFiles, reading>>

(* Lines 261-264 and 254-258: the sidecar is written, or cannot be.        *)
WriteCache ==
  /\ loading.pc = "write"
  /\ IF loading.writeOk
     THEN /\ cacheFiles' = [cacheFiles EXCEPT ![IndexFilePath(loading.path)] =
                                                Serialize(ArchiveNow(loading, disk))]
          /\ LoadEnds(loading, "ok", TRUE, 0)
     ELSE /\ UNCHANGED cacheFiles
          /\ LoadEnds(loading, "writeFile failed", TRUE, 0)
  /\ UNCHANGED <<disk, sources, reading>>

(* What can go wrong while the payload is read: nothing; the file read     *)
(* stream emits 'error' (the file is gone or unreadable); the Deflate      *)
(* decoder emits 'error' (the bytes are no Deflate stream).                *)
Faults == {"none", "read", "decode"}

(* Lines 271-284 and 298-322: what becomes of a stream over a payload.     *)
(*   "rejected"  readFile's promise rejects: the stream it listens to      *)
(*               (line 321) emitted 'error'                                *)
(*   "error"     the stream readFileStream returned emits 'error'          *)
(*   "uncaught"  the file read stream emits 'error' while it is piped into *)
(*               the decoder (line 279): pipe forwards no error, no        *)
(*               listener is on the file stream, and the returned decoder  *)
(*               stream neither ends nor fails                             *)
(*   "ended"     the stream readFileStream returned ends                   *)
(*   else the outcome of the 'end' handler of readFile                     *)
Settled(r) ==
  IF r.fault = "read"
  THEN IF r.compressionMethod = DEFLATE THEN "uncaught"
       ELSE IF r.op = "readFile" THEN "rejected" ELSE "error"
  ELSE IF r.fault = "decode" /\ r.compressionMethod = DEFLATE
  THEN IF r.op = "readFile" THEN "rejected" ELSE "error"
  ELSE IF r.op = "readFile" THEN r.final ELSE "ended"

(* The caller of the last read is still waiting for it.                    *)
Waiting == reading.state \in {"pending", "uncaught", "unsettled"}

ReadCalled(op, filePath, fault, r) ==
  /\ last' = [Idle EXCEPT !.op = op, !.name = filePath,
                          !.outcome = IF r.drained THEN "pending" ELSE r.outcome,
                          !.window = r.window, !.src = r.src, !.opens = r.opens,
                          !.handles = r.handles, !.range = r.range]
  /\ reading' = IF r.drained
                THEN [state |-> "pending", op |-> op,
                      compressionMethod |-> r.window.compressionMethod,
                      fault |-> fault, final |-> r.outcome]
                ELSE NoRead
  /\ UNCHANGED <<disk, cacheFiles, sources, loading>>

(* readFile(filePath) or readFileStream(filePath), up to the stream being  *)
(* open; a caller makes one read at a time and waits for it.               *)
CallRead(op, filePath, fault) ==
  /\ ~Waiting
  /\ ReadCalled(op, filePath, fault,
                IF op = "readFile" THEN ReadFileResult(sources, disk, filePath)
                ELSE ReadFileStreamResult(sources, disk, filePath))

(* The stream ends or fails.                                               *)
StreamEnds ==
  /\ reading.state = "pending"
  /\ reading' = [reading EXCEPT !.state = Settled(reading)]
  /\ UNCHANGED <<disk, cacheFiles, sources, last, loading>>

(* The archives of the step-by-step scenarios: a Deflate entry whose       *)
(* record ends far from the chunk boundary or 46 bytes before it, a file   *)
(* or directory record, and plain files; PathA behind a plain end record,  *)
(* PathB behind ZIP64 ones.                                                *)
AsyncEntries ==
  { <<Entry("x", 32, c, {}, CD_SIG, "deflated"),
      Entry("y", attr, 0, {}, CD_SIG, IF attr = 16 THEN "empty" ELSE "stored")>>
    \o PlainFiles(k) :
      c \in {0, chunkSize - 93}, attr \in {32, 16}, k \in 0..(MaxRecords - 2) }

InitAsync ==
  /\ \E es \in AsyncEntries :
       disk = [p \in Paths |-> BuildArchive(es, IF p = PathA THEN "zip" ELSE "zip64", Tag(p))]
  /\ cacheFiles = [ip \in IndexPaths |-> NoCacheFile]
  /\ sources = <<>>
  /\ last = Idle
  /\ loading = NoLoad
  /\ reading = NoRead

NextAsync ==
  \/ \E filePath \in Paths, cache \in BOOLEAN, writeOk \in BOOLEAN :
       CallLoadArchive(filePath, cache, writeOk)
  \/ TryCache
  \/ ReadTail
  \/ ReadNextChunk
  \/ ReadWholeDirectory
  \/ CloseAndPush
  \/ WriteCache
  \/ \E op \in Reads, filePath \in ReadNames, fault \in Faults : CallRead(op, filePath, fault)
  \/ StreamEnds

SpecAsync == InitAsync /\ [][NextAsync]_vars

(* A stream that is open ends or fails: the file read and the decoder go   *)
(* on until they do.                                                       *)
SpecAsyncFair == SpecAsync /\ WF_vars(StreamEnds)

----------------------------------------------------------------------------
(* The claims                                                              *)

(* The source and the entry the last read resolved to, when that source's  *)
(* entry map has the name as a key of its own.                             *)
OwnEntry == last.src # 0 /\ last.name \in DOMAIN sources[last.src].data

ResolvedEntry == sources[last.src].data[last.name]

ResolvedFile == disk[sources[last.src].path]

(* Every payload of the archive decodes to the bytes its central directory *)
(* record describes.                                                       *)
Intact(file) ==
  \A i \in 1..Len(file.local) :
    Decode(file.local[i].compressionMethod, file.local[i]).crc = file.cd[i].crc32

(* C1: for every entry indexed in a loaded archive whose bytes are intact, *)
(* readFile(name) resolves with bytes whose length and CRC-32 equal the    *)
(* uncompressed length and CRC-32 recorded for the entry in the index (no  *)
(* bytes at all for an entry recorded with length 0).                      *)
C1_ReadFileYieldsIndexedContent ==
  (last.op = "readFile" /\ OwnEntry /\ Intact(ResolvedFile)) =>
    IF ResolvedEntry.length = 0 THEN last.outcome = "null"
    ELSE /\ last.outcome = "buffer"
         /\ last.buffer.length = ResolvedEntry.length
         /\ last.buffer.crc = ResolvedEntry.crc32

(* C2: a read resolves the name to the earliest-loaded source whose entry  *)
(* map contains that name.                                                 *)
Holders(name) == {i \in 1..Len(sources) : name \in DOMAIN sources[i].data}

C2_EarliestHolderResolves ==
  (last.op \in Reads /\ Holders(last.name) # {}) =>
    /\ last.src \in Holders(last.name)
    /\ \A i \in Holders(last.name) : last.src <= i

(* C3: the registry's source list never contains two sources with the same *)
(* path.                                                                   *)
C3_NoTwoSourcesWithOnePath ==
  \A i, j \in 1..Len(sources) : i # j => sources[i].path # sources[j].path

(* C4: a loadArchive call that fails leaves the registry's source list     *)
(* exactly as it was before the call.                                      *)
C4_FailedLoadKeepsSources ==
  [][(last'.op = "loadArchive" /\ last'.outcome # "ok") => sources' = sources]_vars

(* C5: when the bytes readFile has drained differ in length or in CRC-32   *)
(* from the values of the resolved window, the returned promise rejects.   *)
C5_MismatchRejects ==
  (/\ last.op = "readFile"
   /\ last.drained
   /\ \/ last.buffer.length # last.window.length
      \/ last.buffer.crc # last.window.crc32) =>
    last.outcome = "rejected"

IsLoaded(p) == \E i \in 1..Len(sources) : sources[i].path = p

SourceAt(p) == sources[CHOOSE i \in 1..Len(sources) : sources[i].path = p]

Other(p) == IF p = PathA THEN PathB ELSE PathA

(* PathA and PathB hold the same central directory, none of whose records  *)
(* carries a sentinel field, PathA behind a plain end record and PathB     *)
(* behind a ZIP64 one.                                                     *)
SameDirectory ==
  /\ disk[PathA].cd = disk[PathB].cd
  /\ \A k \in 1..Len(disk[PathA].cd) : disk[PathA].cd[k].zip64 = <<>>
  /\ disk[PathA].eocd.centralDirOffset # SENTINEL
  /\ disk[PathB].eocd.centralDirOffset = SENTINEL

(* C6: the same central directory indexed through the chunked ZIP64 path   *)
(* and through the single-buffer path gives the same entry map: when both  *)
(* archives are loaded their maps are equal, and the scan of one never     *)
(* fails on a record signature while the other is loaded.                  *)
C6_ChunkedScanEqualsWholeScan ==
  SameDirectory =>
    /\ (IsLoaded(PathA) /\ IsLoaded(PathB)) => SourceAt(PathA).data = SourceAt(PathB).data
    /\ (last.op = "loadArchive" /\ last.outcome = "Bad file header signature") =>
         ~IsLoaded(Other(last.path))

(* The external attributes mark a directory: DOS flag 0x10 in the low      *)
(* bits, or the Unix bit 0o040000 in the high 16 bits.                     *)
MarksDirectory(attr) == BitAnd(attr, 16) # 0 \/ BitAnd(attr \div 65536, 16384) # 0

(* C7: no central directory record whose external attributes mark it as a  *)
(* directory appears in the entry map of a loaded source.                  *)
C7_NoDirectoryRecordIndexed ==
  \A i \in 1..Len(sources) :
    \A k \in 1..Len(disk[sources[i].path].cd) :
      MarksDirectory(disk[sources[i].path].cd[k].externalAttributes) =>
        disk[sources[i].path].cd[k].fileName \notin DOMAIN sources[i].data

(* C8: every entry indexed on the ZIP64 path, whichever of its three       *)
(* nominal fields are the sentinel, has the record's true uncompressed     *)
(* length as its length and the true local header offset as its offset.    *)
C8_Zip64EntryHasTrueValues ==
  \A i \in 1..Len(sources) :
    disk[sources[i].path].eocd.centralDirOffset = SENTINEL =>
      \A k \in 1..Len(disk[sources[i].path].cd) :
        disk[sources[i].path].cd[k].fileName \in DOMAIN sources[i].data =>
          /\ sources[i].data[disk[sources[i].path].cd[k].fileName].length
               = disk[sources[i].path].local[k].inflated.length
          /\ sources[i].data[disk[sources[i].path].cd[k].fileName].fileHeaderOffset
               = disk[sources[i].path].local[k].at

C10_NullOnlyForEmptyEntry ==
  (last.op \in Reads /\ OwnEntry /\ last.outcome = "null") =>
    /\ last.window.compressedLength = 0
    /\ ResolvedEntry.length = 0

(* The source a scan of the archive at p registers, and the outcome of     *)
(* that scan.                                                              *)
ScannedSource(p, scan) ==
  [mzrVersion |-> CUR_VERSION, path |-> p, size |-> disk[p].size, data |-> scan.data]

ScanVerdict(scan) == IF scan.error = "" THEN "ok" ELSE scan.error

OnCacheHit(p, scan) ==
  /\ ~last'.scanned
  /\ last'.outcome = "ok"
  /\ scan.error = ""
  /\ sources' = Append(sources, ScannedSource(p, scan))

OnCacheMiss(scan) ==
  /\ last'.scanned
  /\ last'.outcome # "writeFile failed" => last'.outcome = ScanVerdict(scan)

CachedLoadStep(p, scan) ==
  IF CacheHit(cacheFiles, p, disk[p].size) THEN OnCacheHit(p, scan) ELSE OnCacheMiss(scan)

(* C11: a loadArchive with the cache asked for skips the scan exactly when *)
(* the sidecar deserializes and records the archive's size and the current *)
(* version, and then registers the source a scan of the archive would      *)
(* register; otherwise it scans, and ends as the scan ends.                *)
C11_CacheHitEqualsScan ==
  [][(last'.op = "loadArchive" /\ last'.cache /\ last'.outcome # "Archive already loaded")
       => CachedLoadStep(last'.path, ScanArchive(disk[last'.path]))]_vars

(* C12: a loadArchive with the cache asked for whose scan succeeds         *)
(* succeeds, whether or not the sidecar could be written.                  *)
C12_CacheWriteFailureNotReported ==
  (last.op = "loadArchive" /\ last.cache /\ last.scanned
   /\ ScanArchive(disk[last.path]).error = "") => last.outcome = "ok"

(* C13: a read of an entry whose local file header declares a compression  *)
(* method other than Store or Deflate fails; no bytes are handed to the    *)
(* caller.                                                                 *)
C13_UnsupportedMethodFails ==
  (last.op \in Reads /\ OwnEntry /\ last.window.compressionMethod \notin {STORE, DEFLATE}) =>
    /\ last.outcome = "rejected"
    /\ ~last.drained

(* C14: a read of a name that is an entry of no loaded source fails with   *)
(* ENOENT and makes no open or read of an archive file.                    *)
C14_UnknownNameIsENOENT ==
  (last.op \in Reads /\ Holders(last.name) = {}) =>
    /\ last.outcome = "ENOENT"
    /\ last.opens = 0

(* C15: every file handle that loadArchive, loadDirectory or the local     *)
(* header read of a read call opens is closed when the call returns or     *)
(* fails.                                                                  *)
C15_NoHandleLeftOpen == last.handles = 0

(* The local header of the entry the last read resolved to.                *)
ResolvedHeader == HeaderAt(ResolvedFile, ResolvedEntry.fileHeaderOffset)

PayloadStart(l) == ResolvedEntry.fileHeaderOffset + 30 + l.nameLength + l.extraFieldLength

WindowAtPayload(l) ==
  /\ last.window.offset = PayloadStart(l)
  /\ last.drained =>
       /\ last.range.start = PayloadStart(l)
       /\ last.range.end - last.range.start + 1 = last.window.compressedLength
       /\ last.range.start >= l.at + 30 + l.nameLength + l.extraFieldLength
       /\ last.range.end < l.at + 30 + l.nameLength + l.extraFieldLength + l.stored

(* C19: for an entry of nonzero indexed length whose window is resolved,   *)
(* the window's offset is the local header offset plus 30 plus the name    *)
(* and extra field lengths of the local header, and a stream opened on it  *)
(* reads the compressedLength bytes from that offset on, all of them bytes *)
(* of the entry's payload.                                                 *)
C19_StreamReadsThePayload ==
  (last.op \in Reads /\ OwnEntry /\ last.window.filePath # <<>>
   /\ ResolvedEntry.length # 0) => WindowAtPayload(ResolvedHeader)

(* A Deflate entry has been read whole through its window.                 *)
C19_Witness ==
  /\ last.op = "readFile"
  /\ OwnEntry
  /\ last.drained
  /\ last.outcome = "buffer"
  /\ last.window.compressionMethod = DEFLATE
  /\ last.range.end - last.range.start + 1 = last.window.compressedLength

(* C20: the source added by a successful loadArchive(p, useCache) has path *)
(* p, after a cache hit as after a scan.                                   *)
C20_RegisteredPathIsRequestedPath ==
  (last.op = "loadArchive" /\ last.outcome = "ok") => sources[Len(sources)].path = last.path

(* The entry map of the source is the whole index of the archive at its    *)
(* path.                                                                   *)
Complete(source, scan) == scan.error = "" /\ scan.data = source.data

AllComplete == \A i \in 1..Len(sources) : Complete(sources[i], ScanArchive(disk[sources[i].path]))

NoneChanges == \A i \in 1..Len(sources) : sources'[i] = sources[i]

(* C16: at every suspension point of a loadArchive in progress, every      *)
(* source a read can see has its whole central directory indexed, and no   *)
(* step ever changes a source that is in the registry.                     *)
C16_ReadsSeeOnlyCompleteSources == []AllComplete /\ [][NoneChanges]_vars

(* A read has resolved an entry of a loaded source while another archive   *)
(* is half indexed.                                                        *)
C16_Witness ==
  /\ last.op \in Reads
  /\ last.src # 0
  /\ loading.pc = "chunks"
  /\ loading.data # EmptyData

(* A failure occurs while the stream's payload is read.                    *)
Faulted ==
  \/ reading.fault = "read"
  \/ reading.fault = "decode" /\ reading.compressionMethod = DEFLATE

(* C17: a failure of the file read or of the decoder while a payload is    *)
(* read reaches the caller: readFile's promise rejects, the stream of      *)
(* readFileStream emits an error.                                          *)
C17_FailureReachesCaller ==
  (reading.state = "pending" /\ Faulted) ~> (reading.state \in {"rejected", "error"})

(* The directory bytes the chunk loop has consumed: those read so far      *)
(* less those carried in remainingBuffer.                                  *)
Consumed == loading.processedBytes - loading.remLength

IndexedUpTo(cd, consumed) ==
  /\ \E k \in 1..(Len(cd) + 1) : StartOf(cd, k) = consumed
  /\ \A k \in 1..Len(cd) :
       ~IsDirectoryRecord(cd[k]) =>
         (cd[k].fileName \in DOMAIN loading.data <=> StartOf(cd, k) < consumed)

(* C18: after each chunk of the ZIP64 scan, the bytes consumed end at the  *)
(* start of a record, the first one not yet parsed: every file record      *)
(* before it is indexed and none after it.                                 *)
C18_CarryStartsAtRecordBoundary ==
  (loading.pc \in {"chunks", "close"} /\ loading.processedBytes > 0) =>
    IndexedUpTo(disk[loading.path].cd, Consumed)

============================================================================
